---- MODULE Spec2Model ----
(***************************************************************************)
(* Model of src/hashmap.h: HashMap<KeyType, ValueType, Hash>, a hash map   *)
(* with separate chaining.  hashmap_ is the dense entry store, indices_    *)
(* the array of chains, each chain a list of positions into hashmap_.      *)
(*                                                                         *)
(* Positions and bucket numbers are 0-based as in the source; TLA+         *)
(* sequences are 1-based, so position p is hashmap_[p + 1] and bucket b is *)
(* indices_[b + 1].  An iterator of hashmap_ is modelled by its position,  *)
(* end() by the position Len(hashmap_).  An iterator of a chain is the     *)
(* pair (bucket, 1-based index in the chain).                              *)
(*                                                                         *)
(* The public operations are operators from a table record to a table      *)
(* record, translated statement by statement; the actions apply them to    *)
(* the variables.  A statement with undefined behaviour (hash % 0, an      *)
(* access outside a vector, a chain scan past the end of its list) stops   *)
(* the call: the assignments made before it are kept, `fault` names it,    *)
(* and no later call is modelled.  What the division by zero turns into is *)
(* the build's choice, drawn from UBOutcomes when the call is stored.      *)
(***************************************************************************)
EXTENDS Integers, Sequences, FiniteSets, TLC

\* ------------------------------------------------------------------ bounds
NumKeys == 3
MaxValue == 1
HashMax == 1
NumResizeKeys == 5

Keys == 1..NumKeys
Vals == 0..MaxValue
ResizeKeys == 1..NumResizeKeys
DefaultValue == 0

\* ------------------------------------------------- constants of the class
kScalingFactor == 2
kMinLoadFactor == 4
kMaxLoadFactor == 2

\* What the build makes of hasher_(key) % 0: a trap at the division, or some
\* value that is then used as an index into the empty bucket array.
UBOutcomes == {"division_by_zero", "bucket_out_of_range"}

VARIABLES capacity_, stored_elements_, indices_, hashmap_, hasher_, fault,
          ref, last

vars == <<capacity_, stored_elements_, indices_, hashmap_, hasher_, fault,
          ref, last>>

\* The table as one record, the argument and result of the operations.
Table ==
  [capacity_ |-> capacity_, stored_elements_ |-> stored_elements_,
   indices_ |-> indices_, hashmap_ |-> hashmap_, fault |-> fault]

Pair(k, v) == [first |-> k, second |-> v]

\* ------------------------------------------------------- private helpers
GetBucketIndex(t, key) == hasher_[key] % t.capacity_

LastKey(t) == t.hashmap_[Len(t.hashmap_)].first

End(t) == Len(t.hashmap_)

RECURSIVE ScanChain(_, _, _, _)
ScanChain(t, chain, i, key) ==
  IF i > Len(chain) THEN End(t)
  ELSE IF chain[i] < Len(t.hashmap_) /\ t.hashmap_[chain[i] + 1].first = key
       THEN chain[i]
       ELSE ScanChain(t, chain, i + 1, key)

find(t, key) ==
  IF t.capacity_ = 0 THEN End(t)
  ELSE ScanChain(t, t.indices_[GetBucketIndex(t, key) + 1], 1, key)

\* The while loop of FindInChainList: the index of the first record of the
\* chain that is a live position holding key; Len(chain) + 1 when the loop
\* leaves the chain (the source then dereferences the end of the list).
RECURSIVE ChainLoop(_, _, _, _)
ChainLoop(t, chain, i, key) ==
  IF i > Len(chain) THEN i
  ELSE IF chain[i] >= t.stored_elements_
          \/ t.hashmap_[chain[i] + 1].first # key
       THEN ChainLoop(t, chain, i + 1, key)
       ELSE i

FindInChainList(t, key) ==
  LET chain_storage_location == GetBucketIndex(t, key)
  IN [bucket |-> chain_storage_location,
      idx |-> ChainLoop(t, t.indices_[chain_storage_location + 1], 1, key)]

Overrun(t, it) == it.idx > Len(t.indices_[it.bucket + 1])

Deref(t, it) == t.indices_[it.bucket + 1][it.idx]

EmptyChains(n) == [b \in 1..n |-> << >>]

RECURSIVE insert(_, _)
RECURSIVE RebuildLoop(_, _, _)

\* Rebuild forgetting hashmap_.clear(): the old entries stay in the store.
Rebuild_KeepStore(t) ==
  LET old_hashmap == t.hashmap_
      cleared == [t EXCEPT !.stored_elements_ = 0,
                           !.indices_ = EmptyChains(t.capacity_)]
  IN RebuildLoop(cleared, old_hashmap, 1)

Rebuild(t) ==
  LET old_hashmap == t.hashmap_
      cleared == [t EXCEPT !.stored_elements_ = 0,
                           !.hashmap_ = << >>,
                           !.indices_ = EmptyChains(t.capacity_)]
  IN RebuildLoop(cleared, old_hashmap, 1)

RebuildLoop(t, old_hashmap, i) ==
  IF i > Len(old_hashmap) \/ t.fault # "none" THEN t
  ELSE RebuildLoop(insert(t, old_hashmap[i]), old_hashmap, i + 1)

\* UpscaleIfNecessary growing to double the capacity plus one.
UpscaleIfNecessary_PlusOne(t) ==
  IF t.stored_elements_ >= t.capacity_ * kMaxLoadFactor
  THEN Rebuild([t EXCEPT !.capacity_ = t.capacity_ * kScalingFactor + 1])
  ELSE t

\* UpscaleIfNecessary growing only once the load exceeds the factor.
UpscaleIfNecessary_Strict(t) ==
  IF t.stored_elements_ > t.capacity_ * kMaxLoadFactor
  THEN Rebuild([t EXCEPT !.capacity_ = t.capacity_ * kScalingFactor])
  ELSE t

UpscaleIfNecessary(t) ==
  IF t.stored_elements_ >= t.capacity_ * kMaxLoadFactor
  THEN Rebuild([t EXCEPT !.capacity_ = t.capacity_ * kScalingFactor])
  ELSE t

\* DownscaleIfNecessary halving capacity_ without calling Rebuild.
DownscaleIfNecessary_NoRebuild(t) ==
  IF t.stored_elements_ * kMinLoadFactor <= t.capacity_
  THEN [t EXCEPT !.capacity_ = t.capacity_ \div kScalingFactor]
  ELSE t

\* DownscaleIfNecessary shrinking only below the quarter load.
DownscaleIfNecessary_Strict(t) ==
  IF t.stored_elements_ * kMinLoadFactor < t.capacity_
  THEN Rebuild([t EXCEPT !.capacity_ = t.capacity_ \div kScalingFactor])
  ELSE t

DownscaleIfNecessary(t) ==
  IF t.stored_elements_ * kMinLoadFactor <= t.capacity_
  THEN Rebuild([t EXCEPT !.capacity_ = t.capacity_ \div kScalingFactor])
  ELSE t

\* insert as insert-or-replace: a present key gets the new value.
insert_OrReplace(t, element) ==
  IF t.fault # "none" THEN t
  ELSE IF find(t, element.first) # End(t)
  THEN [t EXCEPT !.hashmap_[find(t, element.first) + 1].second = element.second]
  ELSE
    LET up == UpscaleIfNecessary(t)
        inc == [up EXCEPT !.stored_elements_ = up.stored_elements_ + 1]
    IN IF up.fault # "none" THEN up
       ELSE IF inc.capacity_ = 0
       THEN [inc EXCEPT !.fault = "hash_mod_zero"]
       ELSE
         LET pos == GetBucketIndex(inc, element.first)
         IN [inc EXCEPT
               !.indices_[pos + 1] = Append(@, inc.stored_elements_ - 1),
               !.hashmap_ = Append(@, element)]

insert(t, element) ==
  IF t.fault # "none" THEN t
  ELSE IF find(t, element.first) # End(t) THEN t
  ELSE
    LET up == UpscaleIfNecessary(t)
        inc == [up EXCEPT !.stored_elements_ = up.stored_elements_ + 1]
    IN IF up.fault # "none" THEN up
       ELSE IF inc.capacity_ = 0
       THEN [inc EXCEPT !.fault = "hash_mod_zero"]
       ELSE
         LET pos == GetBucketIndex(inc, element.first)
         IN [inc EXCEPT
               !.indices_[pos + 1] = Append(@, inc.stored_elements_ - 1),
               !.hashmap_ = Append(@, element)]

\* The iterator insert returns: the existing entry, or the appended one.
insertIt(t, element) ==
  IF find(t, element.first) # End(t) THEN find(t, element.first)
  ELSE insert(t, element).stored_elements_ - 1

RemoveAt(chain, i) ==
  [j \in 1..(Len(chain) - 1) |-> IF j < i THEN chain[j] ELSE chain[j + 1]]

\* SwapWithLastIfNecessary swapping the two entries of the store but not
\* the two chain records.
SwapWithLastIfNecessary_NoRepoint(t, key) ==
  LET it_key == FindInChainList(t, key)
  IN IF Overrun(t, it_key) THEN [t |-> [t EXCEPT !.fault = "chain_overrun"],
                                 it |-> it_key]
     ELSE IF LastKey(t) = key THEN [t |-> t, it |-> it_key]
     ELSE
       LET it_last == FindInChainList(t, LastKey(t))
       IN IF Overrun(t, it_last)
          THEN [t |-> [t EXCEPT !.fault = "chain_overrun"], it |-> it_key]
          ELSE
            LET pk == Deref(t, it_key)
                pl == Deref(t, it_last)
                store ==
                  [[t.hashmap_ EXCEPT ![pk + 1] = t.hashmap_[pl + 1]]
                     EXCEPT ![pl + 1] = t.hashmap_[pk + 1]]
            IN [t |-> [t EXCEPT !.hashmap_ = store], it |-> it_key]

SwapWithLastIfNecessary(t, key) ==
  LET it_key == FindInChainList(t, key)
  IN IF Overrun(t, it_key) THEN [t |-> [t EXCEPT !.fault = "chain_overrun"],
                                 it |-> it_key]
     ELSE IF LastKey(t) = key THEN [t |-> t, it |-> it_key]
     ELSE
       LET it_last == FindInChainList(t, LastKey(t))
       IN IF Overrun(t, it_last)
          THEN [t |-> [t EXCEPT !.fault = "chain_overrun"], it |-> it_key]
          ELSE
            LET a == Deref(t, it_key)
                b == Deref(t, it_last)
                swapped ==
                  [[t.indices_ EXCEPT ![it_last.bucket + 1][it_last.idx] = a]
                     EXCEPT ![it_key.bucket + 1][it_key.idx] = b]
                t1 == [t EXCEPT !.indices_ = swapped]
                pk == Deref(t1, it_key)
                pl == Deref(t1, it_last)
                store ==
                  [[t.hashmap_ EXCEPT ![pk + 1] = t.hashmap_[pl + 1]]
                     EXCEPT ![pl + 1] = t.hashmap_[pk + 1]]
            IN [t |-> [t1 EXCEPT !.hashmap_ = store], it |-> it_key]

\* EraseLastElement dropping the chain record but not popping the store.
EraseLastElement_NoPop(t, iter) ==
  LET chain_storage_location == GetBucketIndex(t, LastKey(t))
  IN IF chain_storage_location # iter.bucket
     THEN [t EXCEPT !.fault = "foreign_iterator"]
     ELSE [t EXCEPT
             !.indices_[chain_storage_location + 1] = RemoveAt(@, iter.idx)]

\* EraseLastElement popping the store but leaving the chain record.
EraseLastElement_KeepRecord(t, iter) ==
  [t EXCEPT !.hashmap_ = SubSeq(@, 1, Len(@) - 1)]

EraseLastElement(t, iter) ==
  LET chain_storage_location == GetBucketIndex(t, LastKey(t))
  IN IF chain_storage_location # iter.bucket
     THEN [t EXCEPT !.fault = "foreign_iterator"]
     ELSE [t EXCEPT
             !.indices_[chain_storage_location + 1] = RemoveAt(@, iter.idx),
             !.hashmap_ = SubSeq(@, 1, Len(@) - 1)]

\* erase running the shrink test whether or not the key was found.
erase_AlwaysDownscale(t, key) ==
  IF t.fault # "none" THEN t
  ELSE IF find(t, key) = End(t) THEN DownscaleIfNecessary(t)
  ELSE LET sw == SwapWithLastIfNecessary(t, key)
           er == IF sw.t.fault # "none" THEN sw.t
                 ELSE EraseLastElement(sw.t, sw.it)
       IN IF er.fault # "none" THEN er
          ELSE DownscaleIfNecessary(
                 [er EXCEPT !.stored_elements_ = er.stored_elements_ - 1])

\* erase without --stored_elements_.
erase_NoDecrement(t, key) ==
  IF t.fault # "none" THEN t
  ELSE IF find(t, key) = End(t) THEN t
  ELSE
    LET sw == SwapWithLastIfNecessary(t, key)
        er == IF sw.t.fault # "none" THEN sw.t
              ELSE EraseLastElement(sw.t, sw.it)
    IN IF er.fault # "none" THEN er
       ELSE DownscaleIfNecessary(er)

erase(t, key) ==
  IF t.fault # "none" THEN t
  ELSE IF find(t, key) = End(t) THEN t
  ELSE
    LET sw == SwapWithLastIfNecessary(t, key)
        er == IF sw.t.fault # "none" THEN sw.t
              ELSE EraseLastElement(sw.t, sw.it)
    IN IF er.fault # "none" THEN er
       ELSE DownscaleIfNecessary(
              [er EXCEPT !.stored_elements_ = er.stored_elements_ - 1])

\* clear emptying the table at the capacity it has.
clear_KeepCapacity(t) ==
  IF t.fault # "none" THEN t
  ELSE [t EXCEPT !.stored_elements_ = 0,
                 !.hashmap_ = << >>,
                 !.indices_ = EmptyChains(t.capacity_)]

clear(t) ==
  IF t.fault # "none" THEN t
  ELSE [t EXCEPT !.capacity_ = 1, !.stored_elements_ = 0,
                 !.hashmap_ = << >>, !.indices_ = EmptyChains(1)]

size(t) == t.stored_elements_

\* begin() is the first position of the store, operator++ the next one.
begin(t) == 0

Increment(it) == it + 1

\* operator* of a cursor: the entry stored at its position.
IterDeref(t, it) == t.hashmap_[it + 1]

\* The positions a cursor takes from it until it equals end().
RECURSIVE Traverse(_, _, _)
Traverse(t, it, visited) ==
  IF it = End(t) THEN visited
  ELSE Traverse(t, Increment(it), Append(visited, it))

\* at returning a default value for a missing key instead of throwing.
at_NoThrow(t, key) ==
  LET key_position == find(t, key)
  IN IF key_position = End(t)
     THEN [threw |-> FALSE, value |-> DefaultValue]
     ELSE [threw |-> FALSE, value |-> t.hashmap_[key_position + 1].second]

\* at: what the call yields, std::out_of_range thrown or the value found.
at(t, key) ==
  LET key_position == find(t, key)
  IN IF key_position = End(t)
     THEN [threw |-> TRUE, value |-> DefaultValue]
     ELSE [threw |-> FALSE, value |-> t.hashmap_[key_position + 1].second]

\* operator[] followed by an assignment through the returned reference.
subscript(t, key) == insert(t, Pair(key, DefaultValue))

assign(t, pos, v) ==
  IF t.fault # "none" THEN t
  ELSE [t EXCEPT !.hashmap_[pos + 1].second = v]

\* ----------------------------------------------------- the reference map
Present(m) == DOMAIN m
RefInsert(m, k, v) ==
  IF k \in DOMAIN m THEN m
  ELSE [x \in DOMAIN m \cup {k} |-> IF x = k THEN v ELSE m[x]]
RefErase(m, k) == [x \in DOMAIN m \ {k} |-> m[x]]
RefAssign(m, k, v) == [x \in DOMAIN m \cup {k} |-> IF x = k THEN v ELSE m[x]]
RefEmpty == [x \in {} |-> 0]

\* ------------------------------------------------------------- the state
Store(t) ==
  /\ capacity_' = t.capacity_
  /\ stored_elements_' = t.stored_elements_
  /\ indices_' = t.indices_
  /\ hashmap_' = t.hashmap_
  /\ IF t.fault = "hash_mod_zero" THEN fault' \in UBOutcomes
                                  ELSE fault' = t.fault

\* What the caller has seen of the call just made: the operation, the value
\* passed to insert, whether find(key) succeeded before the call (hit),
\* capacity_ and stored_elements_ before it, the position at which erase
\* found its victim, and whether at threw.
Call(op, k, v) ==
  [op |-> op,
   threw |-> op = "at" /\ at(Table, k).threw,
   val |-> IF op = "insert" THEN v ELSE 0,
   hit |-> k \in DOMAIN hasher_ /\ find(Table, k) # End(Table),
   cap0 |-> capacity_,
   n0 |-> stored_elements_,
   victim |-> IF op = "erase" /\ k \in DOMAIN hasher_
              THEN find(Table, k) ELSE 0]

InitTable ==
  /\ capacity_ = 1
  /\ stored_elements_ = 0
  /\ indices_ = EmptyChains(1)
  /\ hashmap_ = << >>
  /\ fault = "none"
  /\ ref = RefEmpty
  /\ last = [op |-> "construct", threw |-> FALSE, val |-> 0, hit |-> FALSE,
             cap0 |-> 1, n0 |-> 0, victim |-> 0]

\* The hash functions tried: hash(k) = m * k, that is the constant hash
\* (every key collides), the identity (std::hash of an integer) and its
\* multiples.
Hashers(K) == {[k \in K |-> m * k] : m \in 0..HashMax}

Init ==
  /\ InitTable
  /\ hasher_ \in Hashers(Keys)

OpInsert(k, v) ==
  /\ fault = "none"
  /\ Store(insert(Table, Pair(k, v)))
  /\ ref' = RefInsert(ref, k, v)
  /\ last' = Call("insert", k, v)
  /\ UNCHANGED hasher_

OpSubscript(k) ==
  /\ fault = "none"
  /\ Store(subscript(Table, k))
  /\ ref' = RefInsert(ref, k, DefaultValue)
  /\ last' = Call("subscript", k, DefaultValue)
  /\ UNCHANGED hasher_

OpSubscriptAssign(k, v) ==
  /\ fault = "none"
  /\ Store(assign(subscript(Table, k),
                  insertIt(Table, Pair(k, DefaultValue)), v))
  /\ ref' = RefAssign(ref, k, v)
  /\ last' = Call("assign", k, v)
  /\ UNCHANGED hasher_

OpErase(k) ==
  /\ fault = "none"
  /\ Store(erase(Table, k))
  /\ ref' = RefErase(ref, k)
  /\ last' = Call("erase", k, 0)
  /\ UNCHANGED hasher_

OpClear ==
  /\ fault = "none"
  /\ Store(clear(Table))
  /\ ref' = RefEmpty
  /\ last' = Call("clear", 0, 0)
  /\ UNCHANGED hasher_

OpFind(k) ==
  /\ fault = "none"
  /\ last' = Call("find", k, 0)
  /\ UNCHANGED <<capacity_, stored_elements_, indices_, hashmap_, hasher_,
                 fault, ref>>

\* A loop from begin() to end() reads the table and changes nothing.
OpIterate ==
  /\ fault = "none"
  /\ last' = Call("iterate", 0, 0)
  /\ UNCHANGED <<capacity_, stored_elements_, indices_, hashmap_, hasher_,
                 fault, ref>>

\* at is const: it reads the table and yields a value or throws.
OpAt(k) ==
  /\ fault = "none"
  /\ last' = Call("at", k, 0)
  /\ UNCHANGED <<capacity_, stored_elements_, indices_, hashmap_, hasher_,
                 fault, ref>>

\* A client that writes: insert, operator[] with assignment, erase, clear.
Next ==
  \/ \E k \in Keys, v \in Vals : OpInsert(k, v)
  \/ \E k \in Keys, v \in Vals : OpSubscriptAssign(k, v)
  \/ \E k \in Keys : OpErase(k)
  \/ OpClear

Spec == Init /\ [][Next]_vars

\* A client that reads: operator[] with and without assignment, find and
\* at, on a table it fills through operator[] and drains through erase and
\* clear.
NextAccess ==
  \/ \E k \in Keys : OpSubscript(k)
  \/ \E k \in Keys, v \in Vals : OpSubscriptAssign(k, v)
  \/ \E k \in Keys : OpFind(k)
  \/ \E k \in Keys : OpAt(k)
  \/ OpIterate
  \/ \E k \in Keys : OpErase(k)
  \/ OpClear

SpecAccess == Init /\ [][NextAccess]_vars

\* A client that fills and drains a larger table, each key k carrying the
\* value k % (MaxValue + 1): enough keys for the capacity to reach 4 and for
\* an erase to shrink a table that still holds entries.  It inserts only
\* keys it has not stored and erases only keys it has stored.
ValueOf(k) == k % (MaxValue + 1)

InitResize ==
  /\ InitTable
  /\ hasher_ \in Hashers(ResizeKeys)

NextResize ==
  \/ \E k \in ResizeKeys \ DOMAIN ref : OpInsert(k, ValueOf(k))
  \/ \E k \in DOMAIN ref : OpErase(k)

SpecResize == InitResize /\ [][NextResize]_vars

\* ------------------------------------------------------------ vocabulary
AllKeys == DOMAIN hasher_
Found(t, k) == find(t, k) # End(t)
ValueAt(t, k) == t.hashmap_[find(t, k) + 1].second
ChainOf(t, b) == t.indices_[b + 1]
Occurrences(t, p) ==
  Cardinality(UNION {{<<b, i>> : i \in {j \in 1..Len(t.indices_[b]) :
                                           t.indices_[b][j] = p}} :
                     b \in 1..Len(t.indices_)})
Mutating(op) == op \in {"insert", "subscript", "assign", "erase"}
\* The key a step removes from the reference map: the key erase was called
\* with, when it was present.
ErasedKeys == DOMAIN ref \ DOMAIN ref'

TableNext == Table'

\* The keys the step has added to the reference map.
InsertedKeys == DOMAIN ref' \ DOMAIN ref

\* ---------------------------------------------------------------- claims

\* C1 (Uniqueness): in every reachable state no two entries of the entry
\* store hashmap_ have equal keys.
C1_Uniqueness ==
  \A i, j \in 1..Len(hashmap_) :
     hashmap_[i].first = hashmap_[j].first => i = j

\* C1 witness: an insert of a key that was already present has returned, in
\* a table that has been rebuilt to capacity 2 and holds three entries.
C1_Witness ==
  /\ last.op = "insert"
  /\ last.hit
  /\ capacity_ = 2
  /\ Len(hashmap_) = 3

\* C2 (Erase/insert round-trip): from every reachable state in which k is
\* absent, insert(k, v1); erase(k); insert(k, v2) with v2 # v1 runs to
\* completion and afterwards find(k) is not end() and yields v2.
C2_RoundTrip ==
  \A k \in AllKeys, v1, v2 \in Vals :
     (fault = "none" /\ ~Found(Table, k) /\ v1 # v2) =>
        LET s3 == insert(erase(insert(Table, Pair(k, v1)), k), Pair(k, v2))
        IN /\ s3.fault = "none"
           /\ Found(s3, k)
           /\ ValueAt(s3, k) = v2

\* C3 (Minimum capacity): in every reachable state capacity_ >= 1 and the
\* bucket array indices_ has at least one bucket.
C3_MinCapacity == capacity_ >= 1 /\ Len(indices_) >= 1

\* C4 (Only at() can fail): every call of insert, operator[], erase, find
\* and clear runs to completion: no call divides by a zero capacity_,
\* indexes outside the bucket array or scans past the end of a chain.
C4_NoFault == fault = "none"

\* C5 (Chain/store consistency): in every state between public operations,
\* stored_elements_ = Len(hashmap_), every position below stored_elements_
\* occurs exactly once across all chains, in the chain of bucket
\* hash(key) mod capacity_, and no chain holds a position >=
\* stored_elements_.
C5_ChainStoreConsistency ==
  fault = "none" =>
    /\ stored_elements_ = Len(hashmap_)
    /\ Len(indices_) = capacity_
    /\ \A p \in 0..(stored_elements_ - 1) :
          /\ Occurrences(Table, p) = 1
          /\ capacity_ > 0
          /\ \E i \in 1..Len(ChainOf(Table, GetBucketIndex(Table, hashmap_[p + 1].first))) :
                ChainOf(Table, GetBucketIndex(Table, hashmap_[p + 1].first))[i] = p
    /\ \A b \in 1..Len(indices_) : \A i \in 1..Len(indices_[b]) :
          indices_[b][i] \in 0..(stored_elements_ - 1)

\* C5 witness: an erase has moved the last entry into the slot of its
\* victim, and the two entries that remain share one chain.
C5_Witness ==
  /\ fault = "none"
  /\ last.op = "erase"
  /\ last.hit
  /\ last.victim < last.n0 - 1
  /\ stored_elements_ = 2
  /\ hasher_[hashmap_[1].first] % capacity_ = hasher_[hashmap_[2].first] % capacity_

\* C6 (Insert-if-absent): insert(k, v2) of a present key leaves size,
\* capacity_, the entry store and all chains unchanged, and every present
\* key, k among them, is still found at its position with its old value
\* (v1, never v2).
C6_InsertIfAbsent ==
  [][(last'.op = "insert" /\ last'.hit) =>
        /\ UNCHANGED <<capacity_, stored_elements_, indices_, hashmap_, fault>>
        /\ \A i \in 1..Len(hashmap_') :
              /\ find(TableNext, hashmap_[i].first) = i - 1
              /\ hashmap_'[i].second = hashmap_[i].second]_vars

\* C6 witness: insert(k, v2) has returned on a table that held k, and no
\* entry of the table has the value v2.
C6_Witness ==
  /\ last.op = "insert"
  /\ last.hit
  /\ stored_elements_ >= 2
  /\ \A i \in 1..Len(hashmap_) : hashmap_[i].second # last.val

\* C7 (Size consistency): size() equals the number of distinct keys inserted
\* and not erased since the last clear; it grows by exactly 1 on insert of
\* an absent key, shrinks by exactly 1 on erase of a present key, is
\* unchanged by insert of a present key and erase of an absent key, and is
\* never negative.
C7_SizeConsistency ==
  [][/\ size(TableNext) = Cardinality(DOMAIN ref')
     /\ size(TableNext) >= 0
     /\ (last'.op \in {"insert", "subscript", "assign"} /\ ~last'.hit)
           => size(TableNext) = size(Table) + 1
     /\ (last'.op \in {"insert", "subscript", "assign"} /\ last'.hit)
           => size(TableNext) = size(Table)
     /\ (last'.op = "erase" /\ last'.hit)
           => size(TableNext) = size(Table) - 1
     /\ (last'.op = "erase" /\ ~last'.hit)
           => size(TableNext) = size(Table)]_vars

\* C7 witness: an erase of a present key has returned and left two of three
\* entries, after which size() is 2.
C7_Witness ==
  /\ last.op = "erase"
  /\ last.n0 = 3
  /\ last.hit
  /\ size(Table) = 2

\* C8 (Resize correctness): when an insert grows or an erase shrinks the
\* table, every key present before (other than the erased one) is still
\* found with the same value, and size() changes only by the +1 / -1 of the
\* triggering call.
C8_ResizeCorrectness ==
  [][(Mutating(last'.op) /\ capacity_' # capacity_) =>
        /\ \A k \in AllKeys :
              (Found(Table, k) /\ k \notin ErasedKeys) =>
                 /\ Found(TableNext, k)
                 /\ ValueAt(TableNext, k) = ValueAt(Table, k)
        /\ last'.op = "erase" => size(TableNext) = size(Table) - 1
        /\ last'.op # "erase" => size(TableNext) = size(Table) + 1]_vars

\* C8 witness: an erase has shrunk a table of capacity 4 that still holds an
\* entry.
C8_Witness ==
  /\ last.op = "erase"
  /\ last.cap0 = 4
  /\ capacity_ = 2
  /\ stored_elements_ >= 1
  /\ fault = "none"

\* C9 (Swap-with-end correctness): when erase(k) removes the entry at
\* position p < stored_count - 1, the former last entry ends up at p with
\* its key and value and is found there, its chain holds p, the record of k
\* is gone, and every other entry keeps position, key and value; also when
\* k and the last key share a bucket.
C9_SwapWithEnd ==
  [][(last'.op = "erase" /\ last'.hit
      /\ last'.victim < stored_elements_ - 1) =>
        LET p == last'.victim
            moved == hashmap_[Len(hashmap_)]
        IN /\ Len(hashmap_') = Len(hashmap_) - 1
           /\ hashmap_'[p + 1] = moved
           /\ find(TableNext, moved.first) = p
           /\ \E i \in 1..Len(ChainOf(TableNext, GetBucketIndex(TableNext, moved.first))) :
                 ChainOf(TableNext, GetBucketIndex(TableNext, moved.first))[i] = p
           /\ ErasedKeys = {hashmap_[p + 1].first}
           /\ \A k \in ErasedKeys : ~Found(TableNext, k)
           /\ \A b \in 1..Len(indices_') : \A i \in 1..Len(indices_'[b]) :
                 indices_'[b][i] < Len(hashmap_')
           /\ \A q \in 0..(Len(hashmap_') - 1) : Occurrences(TableNext, q) = 1
           /\ \A q \in 0..(Len(hashmap_') - 1) :
                 q # p => hashmap_'[q + 1] = hashmap_[q + 1]]_vars

\* C9 witness: an erase has removed a non-last entry whose key shared the
\* chain of the last key (every key has the same hash); the moved entry now
\* sits at the victim's position in a table of capacity 2.
C9_Witness ==
  /\ last.op = "erase"
  /\ last.hit
  /\ last.victim < last.n0 - 1
  /\ fault = "none"
  /\ capacity_ = 2
  /\ last.cap0 = 2
  /\ \A k \in AllKeys : hasher_[k] % capacity_ = 0

\* C10 (Lookup agrees with a reference map): after every step of a sequence
\* of insert, operator[] with assignment, erase and clear run side by side
\* on the table and on a reference map, find(k) = end() iff k is not in the
\* reference map, and otherwise find(k) yields the reference value.
C10_AgreesWithReference ==
  \A k \in AllKeys :
     /\ Found(Table, k) <=> k \in DOMAIN ref
     /\ k \in DOMAIN ref => ValueAt(Table, k) = ref[k]

\* C11 (at): at(k) of an absent key, also on an empty table and at
\* capacity 0, throws out_of_range; at(k) of a present key returns its
\* current value; at leaves capacity, stored count, store and chains
\* unchanged and never inserts.
C11_At ==
  [][last'.op = "at" =>
        /\ UNCHANGED <<capacity_, stored_elements_, indices_, hashmap_, fault>>
        /\ last'.threw <=> ~last'.hit
        /\ \A k \in AllKeys :
              /\ k \notin DOMAIN ref => at(Table, k).threw
              /\ k \in DOMAIN ref =>
                    /\ ~at(Table, k).threw
                    /\ at(Table, k).value = ref[k]]_vars

\* C11 witness: at has thrown on a table whose capacity_ is 0.
C11_Witness ==
  /\ last.op = "at"
  /\ last.threw
  /\ capacity_ = 0

\* C12 (operator[]): from every state a finished operation leaves, t[k]
\* succeeds; with k absent it inserts (k, default), grows size() by one and
\* returns a reference through which a written value is what find(k) then
\* yields; with k present it returns the existing value and changes neither
\* it nor size().
C12_SubscriptSucceeds ==
  fault = "none" =>
    \A k \in AllKeys :
      LET s == subscript(Table, k)
      IN /\ s.fault = "none"
         /\ Found(s, k)
         /\ insertIt(Table, Pair(k, DefaultValue)) = find(s, k)
         /\ \A v \in Vals : ValueAt(assign(s, find(s, k), v), k) = v
         /\ IF Found(Table, k)
            THEN s = Table
            ELSE /\ size(s) = size(Table) + 1
                 /\ ValueAt(s, k) = DefaultValue

\* C13 as the specification states it (growth): on insert of an absent key
\* capacity is doubled exactly when stored_count >= capacity * 1/2 holds at
\* the time of the call, and is otherwise left unchanged.
C13_GrowthAsSpecified ==
  [][(last'.op = "insert" /\ ~last'.hit) =>
        capacity_' = IF 2 * stored_elements_ >= capacity_
                     THEN capacity_ * 2
                     ELSE capacity_]_vars

\* C13 amended (growth): on insert of an absent key capacity is doubled
\* exactly when stored_count >= capacity * 2 holds at the time of the call
\* (kMaxLoadFactor is 2, not 1/2), and is otherwise left unchanged.
C13_Growth ==
  [][(last'.op = "insert" /\ ~last'.hit) =>
        capacity_' = IF stored_elements_ >= capacity_ * 2
                     THEN capacity_ * 2
                     ELSE capacity_]_vars

\* C13 witness: an insert of an absent key has doubled capacity_ from 2 to 4.
C13_Witness ==
  /\ last.op = "insert"
  /\ ~last.hit
  /\ last.cap0 = 2
  /\ last.n0 = 4
  /\ capacity_ = 4
  /\ stored_elements_ = 5

C15_GrowthAsDocumented ==
  [][(last'.op = "insert" /\ ~last'.hit) =>
        capacity_' = IF stored_elements_ > capacity_ * kMaxLoadFactor
                     THEN 2 * capacity_ + 1
                     ELSE capacity_]_vars

\* C16 (clear and reuse): from every state, capacity_ 0 included, clear()
\* leaves capacity_ 1, stored count 0, an empty store and exactly one empty
\* chain, and find of every key returns end(): the table is the one the
\* constructor builds, so it behaves like a fresh one after any number of
\* fill and clear cycles.
C16_ClearResets ==
  [][last'.op = "clear" =>
        /\ capacity_' = 1
        /\ stored_elements_' = 0
        /\ hashmap_' = << >>
        /\ indices_' = << << >> >>
        /\ fault' = "none"
        /\ \A k \in AllKeys : find(TableNext, k) = End(TableNext)
        /\ \A k \in AllKeys :
              /\ insert(TableNext, Pair(k, DefaultValue)).fault = "none"
              /\ erase(TableNext, k) = TableNext]_vars

\* C16 witness: clear has run on a table whose capacity_ was 0.
C16_Witness ==
  /\ last.op = "clear"
  /\ last.cap0 = 0
  /\ capacity_ = 1

\* C17 (iteration): in every state a finished operation leaves, advancing a
\* cursor from begin() until it equals end() visits the positions
\* 0 .. stored_count - 1 in order and so each live key exactly once, in
\* size() steps; begin() equals end() exactly when the table is empty.
C17_Iteration ==
  fault = "none" =>
    LET visited == Traverse(Table, begin(Table), << >>)
    IN /\ Len(visited) = size(Table)
       /\ \A i \in 1..Len(visited) : visited[i] = i - 1
       /\ {IterDeref(Table, visited[i]).first : i \in 1..Len(visited)} = DOMAIN ref
       /\ \A i, j \in 1..Len(visited) :
             IterDeref(Table, visited[i]).first = IterDeref(Table, visited[j]).first
               => i = j
       /\ \A i \in 1..Len(visited) :
             IterDeref(Table, visited[i]).second
               = ref[IterDeref(Table, visited[i]).first]
       /\ (begin(Table) = End(Table)) <=> (size(Table) = 0)

\* C17 witness: a loop has run over a table of two entries whose storage
\* order is not the order of the keys.
C17_Witness ==
  /\ last.op = "iterate"
  /\ stored_elements_ = 2
  /\ hashmap_[1].first > hashmap_[2].first

\* C18 (erase of an absent key): erase(k) with k absent changes nothing, no
\* capacity, stored count, chain or store entry, and attempts no shrink even
\* when stored_elements_ * 4 <= capacity_ already holds.
C18_EraseAbsentNoOp ==
  [][(last'.op = "erase" /\ ~last'.hit) =>
        /\ UNCHANGED <<capacity_, stored_elements_, indices_, hashmap_, fault>>
        /\ UNCHANGED ref]_vars

\* C18 witness: erase of an absent key has run on an empty table of
\* capacity 1, where the shrink test would succeed.
C18_Witness ==
  /\ last.op = "erase"
  /\ ~last.hit
  /\ last.n0 * kMinLoadFactor <= last.cap0
  /\ capacity_ = 1

\* C19 (insert appends): insert of an absent key places the new entry at
\* the position equal to the stored count before the call, the returned
\* cursor refers to that position, and every entry stored before keeps its
\* position, key and value, also when the insert triggers a grow rebuild.
C19_InsertAppends ==
  [][(last'.op = "insert" /\ ~last'.hit) =>
        /\ Len(hashmap_') = stored_elements_ + 1
        /\ SubSeq(hashmap_', 1, Len(hashmap_)) = hashmap_
        /\ \A k \in InsertedKeys :
              /\ hashmap_'[stored_elements_ + 1] = Pair(k, ref'[k])
              /\ insertIt(Table, Pair(k, ref'[k])) = stored_elements_
              /\ find(TableNext, k) = stored_elements_]_vars

RECURSIVE IsPowerOfTwo(_)
IsPowerOfTwo(n) ==
  \/ n = 1
  \/ n > 1 /\ n % 2 = 0 /\ IsPowerOfTwo(n \div 2)

====
